---- MODULE Spec2Model ----
(***************************************************************************)
(* common-api-hooks: the hooks-folder generator (three variants of         *)
(* createHooksFolder) and the useDebounce hook it stamps.                  *)
(*                                                                         *)
(*   editor : src/unnamed/part_000  (VS Code command, recursive search)    *)
(*   cliA   : src/unnamed/part_001  (npx entry point, recursive search)    *)
(*   cliB   : src/unnamed/part_002  (npx entry point, shallow lookup)      *)
(*                                                                         *)
(* A path is the sequence of its segments below the starting directory     *)
(* (process.cwd() or workspaceFolders[0].uri.fsPath), which is <<>>.       *)
(* The filesystem is a function from the existing paths to their nodes.    *)
(***************************************************************************)
EXTENDS Integers, Sequences, FiniteSets, TLC

VARIABLES
    variant,            \* which createHooksFolder runs
    workspaceFolders,   \* vscode.workspace.workspaceFolders (editor variant)
    order,              \* the order in which readdirSync enumerates names
    fs,                 \* the filesystem below the starting directory
    fs0,                \* the filesystem before the first run
    fs1,                \* the filesystem when the current run started
    runs,               \* how many runs have been started
    pc,                 \* position inside createHooksFolder
    stack,              \* call stack of the recursive search
    targetPath,         \* result of the search
    idx,                \* position of Object.entries(hooks).forEach
    reads,              \* filesystem reads made by this run
    examined,           \* the entries the search of this run has stat-ed, in order
    writes,             \* filesystem writes made by this run, in order
    stderr,             \* console.error lines of this run
    stdout,             \* console.log lines of this run
    shown,              \* vscode.window.show*Message calls of this run
    exitCode,           \* process exit status (-1: the process has not exited)
    escaped,            \* the error that left createHooksFolder uncaught
    value,              \* useDebounce: the value prop of the current render
    delay,              \* useDebounce: the delay prop of the current render
    immediate,          \* useDebounce: the immediate prop
    debouncedValue,     \* useDebounce: the useState cell
    timerRef,           \* useDebounce: timerRef.current
    timers,             \* useDebounce: timeouts pending in the host
    nextId,             \* useDebounce: the id the next setTimeout returns
    sinceChange,        \* useDebounce: ms since the effect last ran (capped)
    published,          \* useDebounce: the values the timer callbacks set, in order
    hookPc              \* useDebounce: life cycle of the component

genVars == <<variant, workspaceFolders, order, fs, fs0, fs1, runs, pc, stack,
             targetPath, idx, reads, examined, writes, stderr, stdout, shown,
             exitCode, escaped>>
debVars == <<value, delay, immediate, debouncedValue, timerRef, timers, nextId,
             sinceChange, published, hookPc>>
vars == <<genVars, debVars>>

(***************************************************************************)
(* Bounds of the model.                                                    *)
(***************************************************************************)
\* entries that exist below the starting directory before the first run
MaxNodes == 3
\* runs of the tool against the same directory
MaxRuns == 2
\* symbolic links the operating system follows while it resolves one path
\* (past that, the call fails with ELOOP)
MaxLinks == 2
\* useDebounce: the longest delay, in ms
MaxDelay == 2
\* useDebounce: setTimeout calls in one life of the component
MaxTimers == 3

(***************************************************************************)
(* Paths and the filesystem.                                               *)
(***************************************************************************)
Null == <<"null">>
Root == <<>>
NoError == "none"

\* path.join(dir, entry)
Join(dir, entry) == Append(dir, entry)

Parent(p) == SubSeq(p, 1, Len(p) - 1)

DirNode == [kind |-> "dir", content |-> <<>>]
FileNode(c) == [kind |-> "file", content |-> c]
UserContent == <<"user">>

\* a symbolic link to the directory at path target
LinkNode(target) == [kind |-> "link", content |-> target]

IsLink(tree, p) == p \in DOMAIN tree /\ tree[p].kind = "link"

\* where the entry at q leads: the target of a symbolic link, q otherwise
Follow(tree, q) == IF IsLink(tree, q) THEN tree[q].content ELSE q

\* the path p names once the symbolic links on it are followed
RECURSIVE RealPath(_, _)
RealPath(tree, p) ==
    IF p = <<>> THEN <<>>
    ELSE CHOOSE r \in {Follow(tree, q) :
                          q \in {Append(RealPath(tree, Parent(p)), p[Len(p)])}} :
            TRUE

\* how many symbolic links are followed to resolve p
RECURSIVE LinksFollowed(_, _)
LinksFollowed(tree, p) ==
    IF p = <<>> THEN 0
    ELSE LinksFollowed(tree, Parent(p))
         + Cardinality({q \in {Append(RealPath(tree, Parent(p)), p[Len(p)])} :
                          IsLink(tree, q)})

\* fs.existsSync(p)
ExistsSync(tree, p) ==
    LET r == RealPath(tree, p) IN r = Root \/ r \in DOMAIN tree

\* fs.lstatSync(p).isDirectory(): a symbolic link is not a directory
IsDirectoryNoFollow(tree, p) ==
    p = Root \/ (p \in DOMAIN tree /\ tree[p].kind = "dir")

\* fs.statSync(p).isDirectory(), for a path that exists
IsDirectory(tree, p) ==
    LET r == RealPath(tree, p)
    IN  r = Root \/ (r \in DOMAIN tree /\ tree[r].kind = "dir")

RECURSIVE SelectNames(_, _, _)
SelectNames(ord, tree, dir) ==
    IF ord = <<>> THEN <<>>
    ELSE IF Join(dir, Head(ord)) \in DOMAIN tree
         THEN <<Head(ord)>> \o SelectNames(Tail(ord), tree, dir)
         ELSE SelectNames(Tail(ord), tree, dir)

\* names readdirSync never orders differently in this model: they follow the
\* names of the project tree
FixedTail == <<"App", "loop", "hooks", "notes.md", "useDebounce.ts", "useThrottle.ts",
               "useFetch.ts", "useLocalStorage.ts", "useApi.ts",
               "usePagination.ts", "useInfiniteScroll.ts">>

\* a listing that is sorted by name before it is walked
ReaddirSyncSorted(ord, tree, dir) ==
    SelectNames(<<"app", "lib", "src">> \o FixedTail, tree, dir)

\* fs.readdirSync(dir): the names in dir, in the filesystem's order
ReaddirSync(ord, tree, dir) ==
    SelectNames(ord \o FixedTail, tree, RealPath(tree, dir))

(***************************************************************************)
(* The static hook tables.                                                 *)
(***************************************************************************)
HookNames4 == <<"useDebounce", "useThrottle", "useFetch", "useLocalStorage">>
HookNames7 == HookNames4 \o <<"useApi", "usePagination", "useInfiniteScroll">>

\* the text of one template: the table it comes from and its key (the
\* editor's table carries doc comments the CLI tables dropped; the first
\* four entries of the two CLI tables are the same text)
Template(table, name) == <<table, name>>

TableOf(v) == IF v = "editor" THEN "part_000" ELSE "cli"

\* Object.entries(hooks): [hookName, hookContent] in insertion order
HookEntries(v) ==
    LET names == IF v = "cliB" THEN HookNames7 ELSE HookNames4
    IN  [i \in 1..Len(names) |->
            [name |-> names[i], content |-> Template(TableOf(v), names[i])]]

\* `${hookName}.ts`
FileNameOf(hookName) ==
    CASE hookName = "useDebounce" -> "useDebounce.ts"
      [] hookName = "useThrottle" -> "useThrottle.ts"
      [] hookName = "useFetch" -> "useFetch.ts"
      [] hookName = "useLocalStorage" -> "useLocalStorage.ts"
      [] hookName = "useApi" -> "useApi.ts"
      [] hookName = "usePagination" -> "usePagination.ts"
      [] hookName = "useInfiniteScroll" -> "useInfiniteScroll.ts"

\* path.join(targetPath, 'hooks')
HooksPath(target) == Join(target, "hooks")

\* path.join(hooksPath, `${hookName}.ts`)
HookFilePath(target, hookName) == Join(HooksPath(target), FileNameOf(hookName))

(***************************************************************************)
(* Target-directory resolution.                                            *)
(***************************************************************************)
\* the name test without its second half
IsMarkerSrcOnly(entry) == entry = "src"

\* entry === 'src' || entry === 'app'
IsMarker(entry) == entry = "src" \/ entry = "app"

\* the lookup without its nested check: src wins, src/app is not looked at
FindTargetShallowFlat(tree, dir) ==
    LET srcPath == Join(dir, "src")
        appPath == Join(dir, "app")
    IN  IF ExistsSync(tree, srcPath) /\ IsDirectory(tree, srcPath)
        THEN srcPath
        ELSE IF ExistsSync(tree, appPath) /\ IsDirectory(tree, appPath)
             THEN appPath
             ELSE Null

\* the lookup with its two checks swapped: app is looked at before src
FindTargetShallowAppFirst(tree, dir) ==
    LET srcPath == Join(dir, "src")
        srcAppPath == Join(srcPath, "app")
        appPath == Join(dir, "app")
    IN  IF ExistsSync(tree, appPath) /\ IsDirectory(tree, appPath)
        THEN appPath
        ELSE IF ExistsSync(tree, srcPath) /\ IsDirectory(tree, srcPath)
             THEN IF ExistsSync(tree, srcAppPath) /\ IsDirectory(tree, srcAppPath)
                  THEN srcAppPath
                  ELSE srcPath
             ELSE Null

\* the shallow lookup of part_002
FindTargetShallow(tree, dir) ==
    LET srcPath == Join(dir, "src")
        srcAppPath == Join(srcPath, "app")
        appPath == Join(dir, "app")
    IN  IF ExistsSync(tree, srcPath) /\ IsDirectory(tree, srcPath)
        THEN IF ExistsSync(tree, srcAppPath) /\ IsDirectory(tree, srcAppPath)
             THEN srcAppPath
             ELSE srcPath
        ELSE IF ExistsSync(tree, appPath) /\ IsDirectory(tree, appPath)
             THEN appPath
             ELSE Null

UsesRecursiveSearch(v) == v \in {"editor", "cliA"}
IsCli(v) == v \in {"cliA", "cliB"}

\* the project trees a run can start from
TreeNames == {"src", "app", "lib"}
TreePaths ==
    {<<a>> : a \in TreeNames} \cup {<<a, b>> : a, b \in TreeNames}
    \cup {<<"App">>}
EnumOrders == {<<"app", "lib", "src">>, <<"src", "lib", "app">>,
               <<"lib", "src", "app">>, <<"lib", "app", "src">>}

\* what may sit at <dir>/hooks before the first run
HooksBefore == {"file", "empty", "edited", "blocked"}

HooksFixture(dir, how) ==
    LET h == HooksPath(dir)
    IN  CASE how = "file" -> (h :> FileNode(UserContent))
          [] how = "empty" -> (h :> DirNode)
          [] how = "edited" ->
                (h :> DirNode)
                @@ (Join(h, "useDebounce.ts") :> FileNode(UserContent))
                @@ (Join(h, "notes.md") :> FileNode(UserContent))
          [] how = "blocked" ->
                (h :> DirNode) @@ (Join(h, "useFetch.ts") :> DirNode)

\* a tree: a prefix-closed set of paths, some of them (leaves) plain files
WellFormed(paths, files) ==
    /\ \A p \in paths : Len(p) > 1 => Parent(p) \in paths \ files
    /\ Cardinality(paths) <= MaxNodes

TreeOf(paths, files) ==
    [p \in paths |-> IF p \in files THEN FileNode(UserContent) ELSE DirNode]

ProjectTrees ==
    {TreeOf(paths, files) :
        <<paths, files>> \in {pf \in {<<ps, f>> : ps \in SUBSET TreePaths,
                                                  f \in SUBSET {<<"src">>, <<"app">>, <<"src", "app">>, <<"lib", "src">>}} :
                                /\ pf[2] \subseteq pf[1]
                                /\ WellFormed(pf[1], pf[2])}}

DirsOf(tree) == {p \in DOMAIN tree : tree[p].kind = "dir"}

\* the ancestors of dir, dir itself included
Ancestors(dir) == {SubSeq(dir, 1, k) : k \in 0..Len(dir)}

\* trees with a cycle: a symbolic link, in a directory the search descends
\* into, to that directory or to one above it
CyclicTrees ==
    {(Join(x[2], "loop") :> LinkNode(x[3])) @@ x[1] :
        x \in {y \in ProjectTrees \X (TreePaths \cup {Root})
                                    \X (TreePaths \cup {Root}) :
                  /\ Cardinality(DOMAIN y[1]) < MaxNodes
                  /\ y[2] \in DirsOf(y[1]) \cup {Root}
                  /\ y[2] # Root => y[2][Len(y[2])] \notin {"src", "app"}
                  /\ y[3] \in Ancestors(y[2])}}

InitialTrees ==
    ProjectTrees
    \cup CyclicTrees
    \cup {HooksFixture(d, how) @@ t :
            <<t, d, how>> \in {x \in ProjectTrees \X TreePaths \X HooksBefore :
                                  /\ x[2] \in DirsOf(x[1])
                                  /\ x[2][Len(x[2])] \in {"src", "app"}}}

(***************************************************************************)
(* createHooksFolder, one step at a time.                                  *)
(***************************************************************************)
Undefined == [defined |-> FALSE, folders |-> <<>>]
Folders(list) == [defined |-> TRUE, folders |-> list]

NoWorkspaceMessage == [kind |-> "error", text |-> "No workspace is open."]
NotFoundMessage ==
    [kind |-> "error", text |-> "No src or app folder found in the workspace."]
CreatedMessage == [kind |-> "info", text |-> "Hooks folder created."]
NotFoundLineA ==
    "No src or app folder found in the current directory or its subdirectories."
NotFoundLineB ==
    "No src, src/app, or app folder found in the current directory."
UncaughtLine == "Uncaught exception"

\* console.log(`Hooks folder created successfully in ${hooksPath}`)
SuccessLine(hooksPath) == <<"Hooks folder created successfully in", hooksPath>>

Frame(dir, entries) == [dir |-> dir, entries |-> entries]

Top == stack[Len(stack)]

\* the state a run starts in
RunInit ==
    /\ stack = <<>>
    /\ targetPath = Null
    /\ idx = 0
    /\ reads = 0
    /\ examined = <<>>
    /\ writes = <<>>
    /\ stderr = <<>>
    /\ stdout = <<>>
    /\ shown = <<>>
    /\ exitCode = -1
    /\ escaped = NoError

DebounceIdle ==
    /\ value = "a"
    /\ delay = 1
    /\ immediate = FALSE
    /\ debouncedValue = "a"
    /\ timerRef = 0
    /\ timers = {}
    /\ nextId = 1
    /\ sinceChange = 0
    /\ published = <<>>
    /\ hookPc = "unmounted"

Init ==
    /\ variant \in {"editor", "cliA", "cliB"}
    /\ workspaceFolders \in
          IF variant = "editor"
          THEN {Undefined, Folders(<<>>), Folders(<<Root>>)}
          ELSE {Undefined}
    /\ order \in IF UsesRecursiveSearch(variant)
                    /\ (variant = "editor" => workspaceFolders = Folders(<<Root>>))
                 THEN EnumOrders ELSE {<<"app", "lib", "src">>}
    /\ fs \in InitialTrees
    /\ fs0 = fs
    /\ fs1 = fs
    /\ runs = 1
    /\ pc = IF variant = "editor" THEN "start" ELSE "find"
    /\ RunInit
    /\ DebounceIdle

\* an exception nothing catches: it ends a Node process with status 1 and
\* its trace on stderr; in the editor it rejects the promise of the async
\* createHooksFolder, which the command callback drops
Throw(err) ==
    /\ escaped' = err
    /\ pc' = "done"
    /\ exitCode' = IF IsCli(variant) THEN 1 ELSE exitCode
    /\ stderr' = IF IsCli(variant) THEN Append(stderr, UncaughtLine) ELSE stderr

\* part_000:45-52
CheckWorkspace ==
    /\ pc = "start"
    /\ IF ~workspaceFolders.defined
       THEN /\ shown' = Append(shown, NoWorkspaceMessage)
            /\ pc' = "done"
            /\ UNCHANGED <<escaped, exitCode, stderr>>
       ELSE IF workspaceFolders.folders = <<>>
            THEN Throw("TypeError") /\ UNCHANGED shown
            ELSE /\ pc' = "find"
                 /\ UNCHANGED <<shown, escaped, exitCode, stderr>>
    /\ UNCHANGED <<variant, workspaceFolders, order, fs, fs0, fs1, runs, stack,
                   targetPath, idx, reads, examined, writes, stdout>>
    /\ UNCHANGED debVars

\* findTargetDirectory(currentDir) of part_002
FindShallow ==
    /\ pc = "find"
    /\ ~UsesRecursiveSearch(variant)
    /\ targetPath' = FindTargetShallow(fs, Root)
    /\ reads' = reads + 1
    /\ pc' = "found"
    /\ UNCHANGED <<variant, workspaceFolders, order, fs, fs0, fs1, runs, stack,
                   idx, writes, stderr, stdout, shown, exitCode, escaped>>
    /\ UNCHANGED examined
    /\ UNCHANGED debVars

\* the outermost call of the recursive search: readdirSync(dir)
FindCall ==
    /\ pc = "find"
    /\ UsesRecursiveSearch(variant)
    /\ stack' = <<Frame(Root, ReaddirSync(order, fs, Root))>>
    /\ reads' = reads + 1
    /\ pc' = "search"
    /\ UNCHANGED <<variant, workspaceFolders, order, fs, fs0, fs1, runs,
                   targetPath, idx, writes, stderr, stdout, shown, exitCode,
                   escaped>>
    /\ UNCHANGED examined
    /\ UNCHANGED debVars

\* one turn of `for (const entry of entries)` in the innermost call
FindExamine ==
    /\ pc = "search"
    /\ Top.entries # <<>>
    /\ LinksFollowed(fs, Join(Top.dir, Head(Top.entries))) <= MaxLinks
    /\ LET entry == Head(Top.entries)
           entryPath == Join(Top.dir, entry)
           rest == [stack EXCEPT ![Len(stack)].entries = Tail(Top.entries)]
       IN  IF IsDirectory(fs, entryPath)
           THEN IF IsMarker(entry)
                THEN /\ targetPath' = entryPath
                     /\ stack' = <<>>
                     /\ pc' = "found"
                     /\ reads' = reads + 1
                ELSE /\ stack' = Append(rest,
                            Frame(entryPath, ReaddirSync(order, fs, entryPath)))
                     /\ reads' = reads + 2
                     /\ UNCHANGED <<targetPath, pc>>
           ELSE /\ stack' = rest
                /\ reads' = reads + 1
                /\ UNCHANGED <<targetPath, pc>>
    /\ examined' = Append(examined, Join(Top.dir, Head(Top.entries)))
    /\ UNCHANGED <<variant, workspaceFolders, order, fs, fs0, fs1, runs, idx,
                   writes, stderr, stdout, shown, exitCode, escaped>>
    /\ UNCHANGED debVars

\* `return null` of the innermost call
FindReturnNull ==
    /\ pc = "search"
    /\ Top.entries = <<>>
    /\ stack' = SubSeq(stack, 1, Len(stack) - 1)
    /\ IF Len(stack) = 1
       THEN targetPath' = Null /\ pc' = "found"
       ELSE UNCHANGED <<targetPath, pc>>
    /\ UNCHANGED <<variant, workspaceFolders, order, fs, fs0, fs1, runs, idx,
                   reads, examined, writes, stderr, stdout, shown, exitCode, escaped>>
    /\ UNCHANGED debVars

\* statSync(entryPath) fails with ELOOP: the path runs through more symbolic
\* links than the operating system follows
FindLoops ==
    /\ pc = "search"
    /\ Top.entries # <<>>
    /\ LinksFollowed(fs, Join(Top.dir, Head(Top.entries))) > MaxLinks
    /\ Throw("ELOOP")
    /\ reads' = reads + 1
    /\ stack' = <<>>
    /\ UNCHANGED <<variant, workspaceFolders, order, fs, fs0, fs1, runs,
                   targetPath, idx, examined, writes, stdout, shown>>
    /\ UNCHANGED debVars

\* readdirSync or statSync throws (a directory that cannot be listed, an
\* entry that cannot be stat-ed)
FindThrows ==
    /\ UsesRecursiveSearch(variant)
    /\ \/ pc = "find"
       \/ pc = "search" /\ Top.entries # <<>>
    /\ Throw("EACCES")
    /\ reads' = reads + 1
    /\ stack' = <<>>
    /\ UNCHANGED <<variant, workspaceFolders, order, fs, fs0, fs1, runs,
                   targetPath, idx, writes, stdout, shown>>
    /\ UNCHANGED examined
    /\ UNCHANGED debVars

\* a search that falls back to the starting directory instead of giving up
ReportNotFoundFallsBack ==
    /\ pc = "found"
    /\ targetPath = Null
    /\ targetPath' = Root
    /\ UNCHANGED <<variant, workspaceFolders, order, fs, fs0, fs1, runs, stack,
                   pc, idx, reads, examined, writes, stderr, stdout, shown, exitCode,
                   escaped>>
    /\ UNCHANGED debVars

\* `if (!targetPath)`: the message, and process.exit(1) on the command line
ReportNotFound ==
    /\ pc = "found"
    /\ targetPath = Null
    /\ IF IsCli(variant)
       THEN /\ stderr' = Append(stderr, IF variant = "cliA" THEN NotFoundLineA
                                        ELSE NotFoundLineB)
            /\ exitCode' = 1
            /\ UNCHANGED shown
       ELSE /\ shown' = Append(shown, NotFoundMessage)
            /\ UNCHANGED <<stderr, exitCode>>
    /\ pc' = "done"
    /\ UNCHANGED <<variant, workspaceFolders, order, fs, fs0, fs1, runs, stack,
                   targetPath, idx, reads, examined, writes, stdout, escaped>>
    /\ UNCHANGED debVars

\* fs.mkdirSync(p, { recursive: true }): p and its missing ancestors
MkdirSync(tree, p) ==
    LET missing == {SubSeq(p, 1, k) : k \in 1..Len(p)} \ DOMAIN tree
    IN  [q \in missing |-> DirNode] @@ tree

\* the error writeFileSync(p, ...) ends with on this tree, if any
WriteError(tree, p) ==
    IF ~ExistsSync(tree, Parent(p)) THEN "ENOENT"
    ELSE IF ~IsDirectory(tree, Parent(p)) THEN "ENOTDIR"
    ELSE IF IsDirectory(tree, p) THEN "EISDIR"
    ELSE NoError

\* a write that leaves an existing file alone (flag 'wx' with the error
\* swallowed)
WriteFileSyncKeepExisting(tree, p, content) ==
    IF p \in DOMAIN tree THEN tree ELSE (p :> FileNode(content)) @@ tree

\* fs.appendFileSync in place of fs.writeFileSync
AppendFileSync(tree, p, content) ==
    IF p \in DOMAIN tree
    THEN (p :> FileNode(tree[p].content \o content)) @@ tree
    ELSE (p :> FileNode(content)) @@ tree

\* fs.writeFileSync(p, content): creates or replaces the file
WriteFileSync(tree, p, content) == (p :> FileNode(content)) @@ tree

MkdirOp(p) == [op |-> "mkdir", path |-> p]
WriteOp(p) == [op |-> "writeFile", path |-> p]

\* p is q or lies below q
IsUnder(p, q) == Len(p) >= Len(q) /\ SubSeq(p, 1, Len(q)) = q

\* a generator that empties the output folder before it fills it
EnsureHooksFolderFresh ==
    /\ pc = "found"
    /\ targetPath # Null
    /\ LET h == HooksPath(targetPath)
           kept == [p \in {q \in DOMAIN fs : ~IsUnder(q, h)} |-> fs[p]]
       IN  /\ fs' = MkdirSync(kept, h)
           /\ writes' = Append(writes, MkdirOp(h))
    /\ reads' = reads + 1
    /\ idx' = 1
    /\ pc' = "write"
    /\ UNCHANGED <<variant, workspaceFolders, order, fs0, fs1, runs, stack,
                   targetPath, stderr, stdout, shown, exitCode, escaped>>
    /\ UNCHANGED examined
    /\ UNCHANGED debVars

\* `if (!fs.existsSync(hooksPath)) fs.mkdirSync(hooksPath, { recursive: true })`
EnsureHooksFolder ==
    /\ pc = "found"
    /\ targetPath # Null
    /\ IF ~ExistsSync(fs, HooksPath(targetPath))
       THEN /\ fs' = MkdirSync(fs, HooksPath(targetPath))
            /\ writes' = Append(writes, MkdirOp(HooksPath(targetPath)))
       ELSE UNCHANGED <<fs, writes>>
    /\ reads' = reads + 1
    /\ idx' = 1
    /\ pc' = "write"
    /\ UNCHANGED <<variant, workspaceFolders, order, fs0, fs1, runs, stack,
                   targetPath, stderr, stdout, shown, exitCode, escaped>>
    /\ UNCHANGED examined
    /\ UNCHANGED debVars

\* mkdirSync throws (no permission to create the folder)
MkdirThrows ==
    /\ pc = "found"
    /\ targetPath # Null
    /\ ~ExistsSync(fs, HooksPath(targetPath))
    /\ Throw("EACCES")
    /\ reads' = reads + 1
    /\ UNCHANGED <<variant, workspaceFolders, order, fs, fs0, fs1, runs, stack,
                   targetPath, idx, writes, stdout, shown>>
    /\ UNCHANGED examined
    /\ UNCHANGED debVars

\* one turn of Object.entries(hooks).forEach: writeFileSync of entry idx
WriteHook ==
    /\ pc = "write"
    /\ idx <= Len(HookEntries(variant))
    /\ LET e == HookEntries(variant)[idx]
           p == HookFilePath(targetPath, e.name)
       IN  IF WriteError(fs, p) = NoError
           THEN /\ fs' = WriteFileSync(fs, p, e.content)
                /\ writes' = Append(writes, WriteOp(p))
                /\ idx' = idx + 1
                /\ UNCHANGED <<pc, escaped, exitCode, stderr>>
           ELSE /\ Throw(WriteError(fs, p))
                /\ UNCHANGED <<fs, writes, idx>>
    /\ UNCHANGED <<variant, workspaceFolders, order, fs0, fs1, runs, stack,
                   targetPath, reads, examined, stdout, shown>>
    /\ UNCHANGED debVars

\* writeFileSync throws for a reason the tree does not show (disk full,
\* no permission)
WriteThrows ==
    /\ pc = "write"
    /\ idx <= Len(HookEntries(variant))
    /\ Throw("ENOSPC")
    /\ UNCHANGED <<variant, workspaceFolders, order, fs, fs0, fs1, runs, stack,
                   targetPath, idx, reads, examined, writes, stdout, shown>>
    /\ UNCHANGED debVars

\* the success message after the loop
ReportCreated ==
    /\ pc = "write"
    /\ idx > Len(HookEntries(variant))
    /\ IF IsCli(variant)
       THEN /\ stdout' = Append(stdout, SuccessLine(HooksPath(targetPath)))
            /\ exitCode' = 0
            /\ UNCHANGED shown
       ELSE /\ shown' = Append(shown, CreatedMessage)
            /\ UNCHANGED <<stdout, exitCode>>
    /\ pc' = "done"
    /\ UNCHANGED <<variant, workspaceFolders, order, fs, fs0, fs1, runs, stack,
                   targetPath, idx, reads, examined, writes, stderr, escaped>>
    /\ UNCHANGED debVars

\* the run ended with the success message
Succeeded ==
    /\ pc = "done"
    /\ escaped = NoError
    /\ IF IsCli(variant) THEN stdout # <<>> ELSE CreatedMessage \in
                                                  {shown[i] : i \in DOMAIN shown}

\* the user runs the tool again in the same directory
Rerun ==
    /\ pc = "done"
    /\ runs < MaxRuns
    /\ Succeeded
    /\ runs' = runs + 1
    /\ fs1' = fs
    /\ pc' = IF variant = "editor" THEN "start" ELSE "find"
    /\ stack' = <<>>
    /\ targetPath' = Null
    /\ idx' = 0
    /\ reads' = 0
    /\ examined' = <<>>
    /\ writes' = <<>>
    /\ stderr' = <<>>
    /\ stdout' = <<>>
    /\ shown' = <<>>
    /\ exitCode' = -1
    /\ escaped' = NoError
    /\ UNCHANGED <<variant, workspaceFolders, order, fs, fs0>>
    /\ UNCHANGED debVars

Next ==
    \/ CheckWorkspace
    \/ FindShallow
    \/ FindCall
    \/ FindExamine
    \/ FindReturnNull
    \/ FindLoops
    \/ FindThrows
    \/ ReportNotFound
    \/ EnsureHooksFolder
    \/ MkdirThrows
    \/ WriteHook
    \/ WriteThrows
    \/ ReportCreated
    \/ Rerun

Spec == Init /\ [][Next]_vars

\* the recursive search alone, on trees whose entries can all be read
SearchInit ==
    /\ Init
    /\ UsesRecursiveSearch(variant)
    /\ variant = "editor" => workspaceFolders = Folders(<<Root>>)
    /\ fs \in ProjectTrees \cup CyclicTrees

SearchNext ==
    \/ CheckWorkspace
    \/ FindCall
    \/ FindExamine
    \/ FindReturnNull
    \/ FindLoops

\* the process runs each step of the search as soon as the one before it
\* has returned
SearchFairSpec ==
    /\ SearchInit
    /\ [][SearchNext]_vars
    /\ WF_vars(SearchNext)

(***************************************************************************)
(* useDebounce (src/src/hooks/useDebounce.ts and the stamped templates).   *)
(* A change of value, delay or immediate re-renders the component; React   *)
(* then runs the cleanup of the previous effect and the effect again.      *)
(* timerRef.current is 0 for null, else the id setTimeout returned.        *)
(***************************************************************************)
Values == {"a", "b", "c"}
Delays == 1..MaxDelay

Timer(id, v, d) == [id |-> id, value |-> v, remaining |-> d]

\* clearTimeout(id)
ClearTimeout(pending, id) == {t \in pending : t.id # id}

\* a cleanup that drops the reference without clearing the timeout
CleanupKeepsTimer(pending, ref) == <<pending, 0>>

\* the cleanup the effect returned: clearTimeout(timerRef.current);
\* timerRef.current = null.  Yields <<pending timers, timerRef.current>>
Cleanup(pending, ref) == <<ClearTimeout(pending, ref), 0>>

\* the body of the effect, run with the props v, d, imm on the pending
\* timers and timerRef.current it finds
Effect(pending, ref, v, d, imm) ==
    /\ debouncedValue' = IF imm /\ ref = 0 THEN v ELSE debouncedValue
    /\ timers' = (IF ref # 0 THEN ClearTimeout(pending, ref) ELSE pending)
                    \cup {Timer(nextId, v, d)}
    /\ timerRef' = nextId
    /\ nextId' = nextId + 1
    /\ sinceChange' = 0

GenIdle ==
    /\ variant = "cliB"
    /\ workspaceFolders = Undefined
    /\ order = <<"app", "lib", "src">>
    /\ fs = <<>>
    /\ fs0 = <<>>
    /\ fs1 = <<>>
    /\ runs = 1
    /\ pc = "done"
    /\ RunInit

\* the first render: useState(value), useRef(null)
DebounceInit ==
    /\ GenIdle
    /\ value \in Values
    /\ delay \in Delays
    /\ immediate \in BOOLEAN
    /\ debouncedValue = value
    /\ timerRef = 0
    /\ timers = {}
    /\ nextId = 1
    /\ sinceChange = 0
    /\ published = <<>>
    /\ hookPc = "rendered"

\* the effect after the first render
Mount ==
    /\ hookPc = "rendered"
    /\ Effect(timers, timerRef, value, delay, immediate)
    /\ hookPc' = "mounted"
    /\ UNCHANGED <<value, delay, immediate, published>>
    /\ UNCHANGED genVars

\* a render with a changed dependency: cleanup, then the effect
PropsChange(v, d, imm) ==
    /\ hookPc = "mounted"
    /\ nextId <= MaxTimers
    /\ <<v, d, imm>> # <<value, delay, immediate>>
    /\ value' = v
    /\ delay' = d
    /\ immediate' = imm
    /\ LET c == Cleanup(timers, timerRef)
       IN  Effect(c[1], c[2], v, d, imm)
    /\ UNCHANGED <<published, hookPc>>
    /\ UNCHANGED genVars

\* one millisecond passes; a timeout that is due runs before the next one
Tick ==
    /\ hookPc = "mounted"
    /\ timers # {}
    /\ \A t \in timers : t.remaining > 0
    /\ timers' = {Timer(t.id, t.value, t.remaining - 1) : t \in timers}
    /\ sinceChange' = IF sinceChange < MaxDelay THEN sinceChange + 1
                      ELSE sinceChange
    /\ UNCHANGED <<value, delay, immediate, debouncedValue, timerRef, nextId,
                   published, hookPc>>
    /\ UNCHANGED genVars

\* the host runs a due timeout: () => { setDebouncedValue(value) }
TimerFires ==
    /\ hookPc = "mounted"
    /\ \E t \in timers :
          /\ t.remaining = 0
          /\ timers' = timers \ {t}
          /\ debouncedValue' = t.value
          /\ published' = Append(published, t.value)
    /\ UNCHANGED <<value, delay, immediate, timerRef, nextId, sinceChange,
                   hookPc>>
    /\ UNCHANGED genVars

\* the component unmounts: the cleanup runs and nothing follows
Unmount ==
    /\ hookPc = "mounted"
    /\ LET c == Cleanup(timers, timerRef)
       IN  timers' = c[1] /\ timerRef' = c[2]
    /\ hookPc' = "unmounted"
    /\ UNCHANGED <<value, delay, immediate, debouncedValue, nextId,
                   sinceChange, published>>
    /\ UNCHANGED genVars

DebounceNext ==
    \/ Mount
    \/ \E v \in Values, d \in Delays, imm \in BOOLEAN : PropsChange(v, d, imm)
    \/ Tick
    \/ TimerFires
    \/ Unmount

DebounceSpec == DebounceInit /\ [][DebounceNext]_vars

\* the host's clock advances and due timeouts run; React runs the effect
\* of a committed render
DebounceFairSpec ==
    /\ DebounceSpec
    /\ WF_vars(Mount)
    /\ WF_vars(Tick)
    /\ WF_vars(TimerFires)

(***************************************************************************)
(* Properties.                                                             *)
(***************************************************************************)
SrcDir == <<"src">>
SrcAppDir == <<"src", "app">>
AppDir == <<"app">>

DirAt(tree, p) == p \in DOMAIN tree /\ tree[p].kind = "dir"

\* the directories named src or app, at any depth
MarkerDirs(tree) ==
    {p \in DOMAIN tree : tree[p].kind = "dir" /\ p[Len(p)] \in {"src", "app"}}

\* the search of this run has returned and targetPath holds its result
Resolved == pc \in {"found", "write"}

\* C1: the shallow lookup returns root/src/app, never root/src, whenever
\* root/src and root/src/app are both directories, whatever else exists
C1_NestedAppPreferred ==
    (variant = "cliB" /\ Resolved /\ DirAt(fs1, SrcDir) /\ DirAt(fs1, SrcAppDir))
        => targetPath = SrcAppDir

C1_Witness ==
    /\ variant = "cliB"
    /\ pc = "found"
    /\ DirAt(fs1, SrcDir) /\ DirAt(fs1, SrcAppDir) /\ DirAt(fs1, AppDir)
    /\ targetPath = SrcAppDir

\* C2: the shallow lookup returns root/src or root/src/app, never root/app,
\* whenever root/src and root/app are both directories; it returns root/app
\* only when root/src is missing or is not a directory
C2_SrcFamilyBeforeApp ==
    (variant = "cliB" /\ Resolved)
        => /\ (DirAt(fs1, SrcDir) /\ DirAt(fs1, AppDir))
                => targetPath \in {SrcDir, SrcAppDir}
           /\ targetPath = AppDir => ~DirAt(fs1, SrcDir)

C2_Witness ==
    /\ variant = "cliB"
    /\ pc = "found"
    /\ DirAt(fs1, SrcDir) /\ DirAt(fs1, AppDir) /\ ~DirAt(fs1, SrcAppDir)
    /\ targetPath = SrcDir

\* C3 as stated: a tree with exactly one directory named src or app (at
\* any depth) resolves to that directory, under either policy
C3_OnlyMarkerFound ==
    Resolved => \A m \in MarkerDirs(fs1) :
                    MarkerDirs(fs1) = {m} => targetPath = m

\* C3 amended: with exactly one directory named src or app, the recursive
\* search returns it wherever it is; the shallow lookup returns it when it
\* is a child of the starting directory and returns null when it is deeper
C3_OnlyMarkerFoundWithinReach ==
    Resolved => \A m \in MarkerDirs(fs1) :
                    MarkerDirs(fs1) = {m} =>
                        IF UsesRecursiveSearch(variant) \/ Len(m) = 1
                        THEN targetPath = m
                        ELSE targetPath = Null

C3_Witness ==
    /\ variant = "cliA"
    /\ pc = "found"
    /\ MarkerDirs(fs1) = {<<"lib", "app">>}
    /\ <<"src">> \in DOMAIN fs1
    /\ targetPath = <<"lib", "app">>

\* C4: in a tree with no directory named src or app the search returns
\* null, no run writes to the filesystem, and a command-line run ends with
\* a line on standard error and a non-zero exit status
C4_NotFoundWritesNothing ==
    MarkerDirs(fs0) = {} =>
        /\ fs = fs0
        /\ writes = <<>>
        /\ Resolved => targetPath = Null
        /\ (pc = "done" /\ IsCli(variant)) =>
                /\ stderr # <<>>
                /\ exitCode > 0
                /\ stdout = <<>>
                /\ escaped = NoError =>
                      stderr = <<IF variant = "cliA" THEN NotFoundLineA
                                 ELSE NotFoundLineB>>

C4_Witness ==
    /\ MarkerDirs(fs0) = {}
    /\ DOMAIN fs0 = {<<"lib">>, <<"src">>, <<"lib", "lib">>}
    /\ variant = "cliA"
    /\ pc = "done"
    /\ escaped = NoError
    /\ exitCode = 1

\* the writeFileSync calls of this run, in order
FileWrites == SelectSeq(writes, LAMBDA w : w.op = "writeFile")

\* C5: after a successful write step exactly K files were written under
\* <target>/hooks, one <name>.ts per entry of the hook table (K = 4, or 7
\* in the latest variant), and each holds its table value byte for byte
C5_AllHooksWritten ==
    Succeeded =>
        LET entries == HookEntries(variant)
            K == IF variant = "cliB" THEN 7 ELSE 4
        IN  /\ Len(entries) = K
            /\ Len(FileWrites) = K
            /\ Cardinality({FileWrites[i].path : i \in 1..Len(FileWrites)}) = K
            /\ \A i \in 1..K :
                  LET p == Join(Join(targetPath, "hooks"),
                                FileNameOf(entries[i].name))
                  IN  /\ FileWrites[i].path = p
                      /\ p \in DOMAIN fs
                      /\ fs[p] = [kind |-> "file", content |-> entries[i].content]

C5_Witness ==
    /\ Succeeded
    /\ variant = "cliB"
    /\ targetPath = SrcAppDir
    /\ <<"src", "app", "hooks", "useDebounce.ts">> \in DOMAIN fs0
    /\ fs[<<"src", "app", "hooks", "useInfiniteScroll.ts">>].content
          = <<"cli", "useInfiniteScroll">>

\* C6: a second successful run in a row leaves the filesystem exactly as
\* the first one left it, also when hook files had been edited or the hooks
\* folder existed before the first run
C6_WriteStepIdempotent ==
    (runs > 1 /\ Succeeded) => fs = fs1

C6_Witness ==
    /\ runs = 2
    /\ Succeeded
    /\ targetPath # Null
    /\ Join(HooksPath(targetPath), "useDebounce.ts") \in DOMAIN fs0
    /\ fs0[Join(HooksPath(targetPath), "useDebounce.ts")].content = UserContent
    /\ fs = fs1
    /\ fs # fs0

\* the paths a run may create or replace: the hooks folder and one file per
\* table entry
Stamped(target) ==
    {Join(Join(target, "hooks"), FileNameOf(HookEntries(variant)[i].name)) :
        i \in DOMAIN HookEntries(variant)}

\* C7: a run changes nothing but the hooks folder (created when absent) and
\* the files <target>/hooks/<name>.ts of the table: every other file or
\* directory that existed when the run started is still there, unchanged,
\* and nothing else appears
C7_OnlyHooksTouched ==
    /\ \A p \in DOMAIN fs1 :
          \/ p \in DOMAIN fs /\ fs[p] = fs1[p]
          \/ targetPath # Null /\ p \in Stamped(targetPath) /\ p \in DOMAIN fs
    /\ \A p \in DOMAIN fs \ DOMAIN fs1 :
          /\ targetPath # Null
          /\ \/ p = Join(targetPath, "hooks") /\ fs[p].kind = "dir"
             \/ p \in Stamped(targetPath)

C7_Witness ==
    /\ Succeeded
    /\ targetPath # Null
    /\ Join(HooksPath(targetPath), "notes.md") \in DOMAIN fs1
    /\ fs[Join(HooksPath(targetPath), "notes.md")] = FileNode(UserContent)
    /\ fs[Join(HooksPath(targetPath), "useDebounce.ts")] # FileNode(UserContent)
    /\ <<"lib">> \in DOMAIN fs

\* C8 as stated: a run from a starting directory ends with one message,
\* also when a directory cannot be listed, the hooks folder cannot be
\* created or a file cannot be written: no exception leaves
\* createHooksFolder uncaught
C8_FailuresCaught ==
    (pc = "done" /\ (IsCli(variant) \/ workspaceFolders.folders # <<>>)) =>
        /\ escaped = NoError
        /\ IF IsCli(variant)
           THEN Len(stderr) + Len(stdout) = 1
           ELSE Len(shown) = 1

\* C9 as stated: with no workspace root (workspaceFolders undefined or an
\* empty list) the editor command shows "No workspace is open." and touches
\* the filesystem neither before nor after
C9_NoWorkspaceShortCircuits ==
    (variant = "editor"
        /\ (~workspaceFolders.defined \/ workspaceFolders.folders = <<>>))
    =>  /\ reads = 0
        /\ writes = <<>>
        /\ fs = fs0
        /\ pc = "done" => (shown = <<NoWorkspaceMessage>> /\ escaped = NoError)

\* C10: with immediate = false at most one timeout is pending; the debounced
\* value changes only to the current input, and only once the props have
\* stayed unchanged for delay ms; and once the input stops changing the
\* debounced value ends up equal to it
C10_TrailingEdgeDebounce ==
    /\ [](immediate = FALSE => Cardinality(timers) <= 1)
    /\ [][(immediate = FALSE /\ immediate' = FALSE
             /\ debouncedValue' # debouncedValue)
          => (/\ debouncedValue' = value
              /\ value' = value
              /\ delay' = delay
              /\ sinceChange >= delay)]_vars
    /\ <>[]((immediate = FALSE /\ hookPc = "mounted") => debouncedValue = value)

C10_Witness ==
    /\ immediate = FALSE
    /\ hookPc = "mounted"
    /\ Len(published) = 2
    /\ published[1] # published[2]
    /\ debouncedValue = value
    /\ value = published[2]
    /\ nextId > 3
    /\ timers = {}

\* a change of value that follows the previous run of the effect by less
\* than delay ms: a later change of the burst that run belongs to
LaterChangeOfBurst ==
    /\ hookPc = "mounted"
    /\ nextId > 2
    /\ timers # {}
    /\ sinceChange < delay
    /\ value' # value
    /\ delay' = delay

\* C11 as stated: with immediate = true the first change of a burst updates
\* the debounced value at once, the later changes of the burst do not
\* update it, and the timeout at the end of the burst does not update it
C11_LeadingEdgeDebounce ==
    [][(immediate = TRUE /\ immediate' = TRUE) =>
          /\ (hookPc = "mounted" /\ value' # value /\ timers = {})
                => debouncedValue' = value'
          /\ LaterChangeOfBurst => debouncedValue' = debouncedValue
          /\ published' # published => debouncedValue' = debouncedValue]_vars

Links(tree) == {p \in DOMAIN tree : tree[p].kind = "link"}

\* the names in dir, in the order the filesystem enumerates them
Listed(tree, dir) ==
    SelectSeq(order \o FixedTail, LAMBDA n : Append(dir, n) \in DOMAIN tree)

MarkerDirAt(tree, p) ==
    p \in DOMAIN tree /\ tree[p].kind = "dir" /\ p[Len(p)] \in {"src", "app"}

\* the entries of dir in depth-first pre-order: each entry, then (for a
\* directory not named src or app) everything below it, then its next sibling
RECURSIVE PreOrder(_, _, _)
PreOrder(tree, dir, names) ==
    IF names = <<>> THEN <<>>
    ELSE LET p == Append(dir, Head(names))
             below == IF tree[p].kind = "dir" /\ ~MarkerDirAt(tree, p)
                      THEN PreOrder(tree, p, Listed(tree, p))
                      ELSE <<>>
         IN  <<p>> \o below \o PreOrder(tree, dir, Tail(names))

\* position of the first directory named src or app in a walk, 0 if none
FirstMarker(tree, walk) ==
    LET hits == {i \in 1..Len(walk) : MarkerDirAt(tree, walk[i])}
    IN  IF hits = {} THEN 0 ELSE CHOOSE i \in hits : \A j \in hits : i <= j

\* C12: on a tree without symbolic links the recursive search examines the entries in enumeration order,
\* depth-first and pre-order (a directory not named src or app is searched
\* to the end before its next sibling is looked at); it returns the first
\* directory of that order named exactly src or app, and examines nothing
\* after it
C12_FirstMatchInPreOrder ==
    (UsesRecursiveSearch(variant) /\ Links(fs1) = {}) =>
        LET walk == PreOrder(fs1, Root, Listed(fs1, Root))
            k == FirstMarker(fs1, walk)
        IN  /\ Len(examined) <= IF k = 0 THEN Len(walk) ELSE k
            /\ \A i \in 1..Len(examined) : examined[i] = walk[i]
            /\ Resolved =>
                  IF k = 0
                  THEN targetPath = Null /\ examined = walk
                  ELSE targetPath = walk[k] /\ Len(examined) = k

C12_Witness ==
    /\ variant = "cliA"
    /\ pc = "found"
    /\ order = <<"lib", "src", "app">>
    /\ DOMAIN fs1 = {<<"lib">>, <<"lib", "app">>, <<"src">>}
    /\ fs1[<<"src">>].kind = "dir"
    /\ fs1[<<"lib", "app">>].kind = "dir"
    /\ targetPath = <<"lib", "app">>
    /\ examined = <<<<"lib">>, <<"lib", "app">>>>

\* the recursive search of this run is under way
Searching == pc \in {"find", "search"}

\* position of the first symbolic link in a walk, 0 if none
FirstLink(tree, walk) ==
    LET hits == {i \in 1..Len(walk) : IsLink(tree, walk[i])}
    IN  IF hits = {} THEN 0 ELSE CHOOSE i \in hits : \A j \in hits : i <= j

\* the tree has a cycle, and no directory named src or app comes before it
\* in traversal order
CycleFirst ==
    /\ UsesRecursiveSearch(variant)
    /\ LET walk == PreOrder(fs1, Root, Listed(fs1, Root))
           k == FirstMarker(fs1, walk)
           j == FirstLink(fs1, walk)
       IN  j # 0 /\ (k = 0 \/ j < k)

AboutToWrite == pc = "write" /\ idx <= Len(HookEntries(variant))

\* C14 as stated: the hooks folder exists as a directory before the first
\* file write is attempted; when <target>/hooks cannot be created (mkdirSync
\* fails, or something that is not a directory sits at that path) the run
\* ends with an I/O error and no hook file written
C14_FolderReadyBeforeWrites ==
    /\ AboutToWrite => IsDirectory(fs, HooksPath(targetPath))
    /\ (pc = "done" /\ targetPath # Null
            /\ ~IsDirectory(fs, HooksPath(targetPath))) =>
          /\ escaped # NoError
          /\ FileWrites = <<>>
          /\ fs = fs1

\* writeFileSync threw inside the forEach loop
WriteFailed ==
    pc = "done" /\ escaped \in {"ENOSPC", "ENOTDIR", "EISDIR", "ENOENT"}

\* something other than the trace of the uncaught exception was put out
ProgressReported ==
    \/ \E i \in DOMAIN stderr : stderr[i] # UncaughtLine
    \/ stdout # <<>>
    \/ shown # <<>>

\* the state of the files once the write of entry i has failed: the entries
\* before i hold their template, entry i and the later ones are as they were
\* when the run started, and there is no success message
PartialBatch ==
    LET entries == HookEntries(variant)
        file(k) == Join(Join(targetPath, "hooks"), FileNameOf(entries[k].name))
    IN  /\ Len(FileWrites) = idx - 1
        /\ \A k \in 1..(idx - 1) :
              /\ file(k) \in DOMAIN fs
              /\ fs[file(k)] = [kind |-> "file", content |-> entries[k].content]
        /\ \A k \in idx..Len(entries) :
              IF file(k) \in DOMAIN fs1
              THEN file(k) \in DOMAIN fs /\ fs[file(k)] = fs1[file(k)]
              ELSE file(k) \notin DOMAIN fs
        /\ stdout = <<>>
        /\ \A i \in DOMAIN shown : shown[i] # CreatedMessage

\* C15 as stated: when the write of entry i fails mid-loop the run reports
\* which entries were written before it and ends with the I/O error; the
\* files written before i keep their template, entry i and the later ones
\* are not written, and no success message is put out
C15_MidLoopFailureReported ==
    WriteFailed =>
        /\ PartialBatch
        /\ idx > 1 => ProgressReported

====
